---- MODULE Spec2Model ----
(***************************************************************************)
(* A model of the PROMETHEE kernel of pypromethee: Kernel, KernelCriterion,*)
(* CriterionSolutionValue, Solution and LinearCriterion.                   *)
(*                                                                         *)
(* Numbers.  The program computes with floating point numbers; the model   *)
(* computes with exact rationals [n, d] in lowest terms (d > 0).  Every    *)
(* number also carries the Python type that decides what a division by     *)
(* zero does: np = TRUE is a numpy scalar (an entry of the ndarray passed  *)
(* to rank, or anything computed from one), whose division by 0.0 yields   *)
(* nan with a warning; np = FALSE is a built-in float, whose division by   *)
(* 0.0 raises ZeroDivisionError.  nan is written [n |-> 0, d |-> 0].       *)
(***************************************************************************)
EXTENDS Integers, Sequences, FiniteSets, TLC

\* ------------------------------------------------------------------------
\* Bounds of the model
\* ------------------------------------------------------------------------
MaxSolutions == 3
MaxCriteria == 2
MaxValue == 2
MaxWeight == 1
MaxRanks == 2
MaxCells == 4
\* Values, p and q given to compute_pref on its own are k / MaxPrefSteps.
MaxPrefSteps == 4
\* The weights of Power the test scenario is ranked with: 1 .. MaxWeightPower.
MaxWeightPower == 4
\* Thresholds given to policies whose thresholds are not constrained:
\* k / 2 for k in 1 .. MaxThreshold.
MaxThreshold == 2
\* Cells of the kernels whose policies are configured freely.
MaxConfigCells == 2
\* Raw values of the columns whose normalisation is looked at: 1 .. MaxRawValue.
MaxRawValue == 3

\* ------------------------------------------------------------------------
\* Arithmetic
\* ------------------------------------------------------------------------
AbsInt(x) == IF x < 0 THEN -x ELSE x

RECURSIVE GCD(_, _)
GCD(a, b) == IF b = 0 THEN a ELSE GCD(b, a % b)

LCM(a, b) == IF a = b THEN a ELSE (a \div GCD(a, b)) * b

\* The rational n/d in lowest terms, as a built-in float.
Rat(n, d) ==
    IF d = 1 THEN [n |-> n, d |-> 1, np |-> FALSE]
    ELSE LET g == GCD(AbsInt(n), d)
         IN  [n |-> n \div g, d |-> d \div g, np |-> FALSE]

\* The same value as a numpy scalar.
AsNumpy(x) == [x EXCEPT !.np = TRUE]

NaN == [n |-> 0, d |-> 0, np |-> TRUE]

IsNaN(x) == x.d = 0

Typed(x, np) == [x EXCEPT !.np = np]

\* a + b and a - b, as a + sign * b.
AddSigned(a, b, sign) ==
    IF IsNaN(a) \/ IsNaN(b) THEN NaN
    ELSE IF a.d = b.d
    THEN Typed(Rat(a.n + sign * b.n, a.d), a.np \/ b.np)
    ELSE Typed(Rat(a.n * (LCM(a.d, b.d) \div a.d) + sign * b.n * (LCM(a.d, b.d) \div b.d),
                   LCM(a.d, b.d)), a.np \/ b.np)

Add(a, b) == AddSigned(a, b, 1)

Sub(a, b) == AddSigned(a, b, -1)

Mul(a, b) ==
    IF IsNaN(a) \/ IsNaN(b) THEN NaN
    ELSE IF a.d = 1 /\ b.d = 1
    THEN [n |-> a.n * b.n, d |-> 1, np |-> a.np \/ b.np]
    ELSE Typed(Rat((a.n \div GCD(AbsInt(a.n), b.d)) * (b.n \div GCD(AbsInt(b.n), a.d)),
                   (a.d \div GCD(AbsInt(b.n), a.d)) * (b.d \div GCD(AbsInt(a.n), b.d))),
               a.np \/ b.np)

\* 1 / b for a finite b # 0.
Inverse(b) ==
    IF b.n < 0 THEN [n |-> -b.d, d |-> -b.n, np |-> b.np]
    ELSE [n |-> b.d, d |-> b.n, np |-> b.np]

\* a / b for a finite b # 0.
Div(a, b) == Mul(a, Inverse(b))

AbsNum(a) == [a EXCEPT !.n = AbsInt(a.n)]

\* Comparisons of the values; every comparison with nan is false.
Lt(a, b) ==
    /\ ~IsNaN(a) /\ ~IsNaN(b)
    /\ IF a.d = b.d THEN a.n < b.n
       ELSE a.n * (LCM(a.d, b.d) \div a.d) < b.n * (LCM(a.d, b.d) \div b.d)

NumEq(a, b) == ~IsNaN(a) /\ ~IsNaN(b) /\ a.n = b.n /\ a.d = b.d

Le(a, b) ==
    /\ ~IsNaN(a) /\ ~IsNaN(b)
    /\ IF a.d = b.d THEN a.n <= b.n
       ELSE a.n * (LCM(a.d, b.d) \div a.d) <= b.n * (LCM(a.d, b.d) \div b.d)

Zero == Rat(0, 1)
One == Rat(1, 1)

\* A Python list of length n, given as a function f on 0 .. n-1, built
\* element by element.
RECURSIVE Elements(_, _)
Elements(f, n) ==
    IF n = 0 THEN <<>> ELSE Elements(f, n - 1) @@ ((n - 1) :> f[n - 1])

\* ------------------------------------------------------------------------
\* Criterion.py, LinearCriterion.py: the criterion policies
\* ------------------------------------------------------------------------
LinearMaximize == 1
LinearMinimize == 2
CriterionType == {LinearMaximize, LinearMinimize}

\* KernelCriterion.criterion before set_criterion: Python's None.
None == [class |-> "NoneType"]

\* LinearCriterion.__init__: stores its arguments, checks nothing.
LinearCriterion(name, type, p, q) ==
    [class |-> "LinearCriterion", name |-> name, type |-> type,
     normalized |-> TRUE, p |-> p, q |-> q]

\* A linear policy that works on the raw values: Criterion.__init__ takes
\* normalized as an argument and keeps it in a public attribute.
RawLinearCriterion(name, type, p, q) ==
    [LinearCriterion(name, type, p, q) EXCEPT !.normalized = FALSE]

\* LinearCriterion.apply_config: config is a dictionary, here a function from
\* its keys to numbers; keys other than "p" and "q" are not looked at.
LinearApplyConfig(self, config) ==
    [self EXCEPT
        !.p = IF "p" \in DOMAIN config THEN Typed(config["p"], FALSE) ELSE @,
        !.q = IF "q" \in DOMAIN config THEN Typed(config["q"], FALSE) ELSE @]

\* LinearCriterion.compute_pref, from d = abs(u - v) on.  The quotient of
\* the linear zone has the type of d; the other results are the literals
\* 0.0 and 1.0.
PrefOfDistance(self, u, v, d) ==
    IF Le(d, self.q) THEN Zero
    ELSE IF Le(self.p, d)
         THEN IF self.type = LinearMaximize
              THEN (IF Lt(v, u) THEN One ELSE Zero)
              ELSE (IF Lt(u, v) THEN One ELSE Zero)
         ELSE IF self.type = LinearMaximize
              THEN (IF Lt(v, u) THEN Div(Sub(d, self.q), Sub(self.p, self.q)) ELSE Zero)
              ELSE (IF Lt(u, v) THEN Div(Sub(d, self.q), Sub(self.p, self.q)) ELSE Zero)

compute_pref_reversed(self, u, v) == PrefOfDistance(self, v, u, AbsNum(Sub(u, v)))

\* LinearCriterion.compute_pref
compute_pref(self, u, v) == PrefOfDistance(self, u, v, AbsNum(Sub(u, v)))

\* ------------------------------------------------------------------------
\* KernelCriterion.py: cells and kernel criteria
\* ------------------------------------------------------------------------
\* CriterionSolutionValue.__init__
CriterionSolutionValue ==
    [fi |-> Zero, fi_plus |-> Zero, fi_minus |-> Zero, value |-> Zero,
     used_value |-> Zero]

\* KernelCriterion.__init__
KernelCriterion(id, n) ==
    [id |-> id, criterion |-> None, weight |-> Zero, nb_solutions |-> n,
     values |-> Elements([s \in 0 .. n - 1 |-> CriterionSolutionValue], n)]

\* The minimum and the maximum of values[0..i].value, as normalize's loop
\* keeps them.
Smaller(a, b) == IF Lt(a, b) THEN a ELSE b
Larger(a, b) == IF Lt(b, a) THEN a ELSE b

RECURSIVE MinValue(_, _)
MinValue(values, i) ==
    IF i = 0 THEN values[0].value
    ELSE Smaller(values[i].value, MinValue(values, i - 1))

RECURSIVE MaxValueOf(_, _)
MaxValueOf(values, i) ==
    IF i = 0 THEN values[0].value
    ELSE Larger(values[i].value, MaxValueOf(values, i - 1))

\* The second half of normalize, from min and diff = max - min on.
Normalized(self, min, diff) ==
    IF self.criterion.normalized
    THEN IF ~NumEq(diff, Zero)
         THEN [self EXCEPT !.values = Elements([i \in 0 .. self.nb_solutions - 1 |->
                  [self.values[i] EXCEPT
                      !.used_value = Div(Sub(self.values[i].value, min), diff)]],
                  self.nb_solutions)]
         ELSE [self EXCEPT !.values = Elements([i \in 0 .. self.nb_solutions - 1 |->
                  [self.values[i] EXCEPT !.used_value = One]], self.nb_solutions)]
    ELSE [self EXCEPT !.values = Elements([i \in 0 .. self.nb_solutions - 1 |->
             [self.values[i] EXCEPT !.used_value = self.values[i].value]],
             self.nb_solutions)]

normalize_by_max(self) ==
    Normalized(self, MinValue(self.values, self.nb_solutions - 1),
               MaxValueOf(self.values, self.nb_solutions - 1))

\* KernelCriterion.normalize, for a criterion that has a policy.
normalize(self) ==
    Normalized(self, MinValue(self.values, self.nb_solutions - 1),
               Sub(MaxValueOf(self.values, self.nb_solutions - 1),
                   MinValue(self.values, self.nb_solutions - 1)))

\* The inner loop of compute_fis for solution i over the solutions 0..j:
\* start + sum of compute_pref over the pairs, the pair (i, i) skipped.
RECURSIVE PlusFrom(_, _, _, _)
PlusFrom(self, i, j, start) ==
    IF j < 0 THEN start
    ELSE IF j = i THEN PlusFrom(self, i, j - 1, start)
    ELSE Add(PlusFrom(self, i, j - 1, start),
             compute_pref(self.criterion, self.values[i].used_value,
                          self.values[j].used_value))

RECURSIVE MinusFrom(_, _, _, _)
MinusFrom(self, i, j, start) ==
    IF j < 0 THEN start
    ELSE IF j = i THEN MinusFrom(self, i, j - 1, start)
    ELSE Add(MinusFrom(self, i, j - 1, start),
             compute_pref(self.criterion, self.values[j].used_value,
                          self.values[i].used_value))

\* What compute_fis starts a cell's fi_minus from.  Its first statement is
\* "val1.fi_plus = val1.fit_minus = 0.0": it resets fi_plus and sets a new
\* attribute fit_minus, so fi_minus keeps the value the cell holds.
FiMinusStart(val) == val.fi_minus

\* The last loop of compute_fis, for one cell.
SetFi(val) == [val EXCEPT !.fi = Sub(val.fi_plus, val.fi_minus)]

\* KernelCriterion.compute_fis
compute_fis(self) ==
    [self EXCEPT !.values = Elements([i \in 0 .. self.nb_solutions - 1 |->
        SetFi([self.values[i] EXCEPT
                  !.fi_plus = PlusFrom(self, i, self.nb_solutions - 1, Zero),
                  !.fi_minus = MinusFrom(self, i, self.nb_solutions - 1,
                                         FiMinusStart(self.values[i]))])],
        self.nb_solutions)]

\* ------------------------------------------------------------------------
\* Solution.py, Kernel.py: the kernel
\* ------------------------------------------------------------------------
VARIABLES
    nb_criteria,        \* Kernel.nb_criteria
    nb_solutions,       \* Kernel.nb_solutions
    criteria,           \* Kernel.criteria: 0..nb_criteria-1 -> KernelCriterion
    solutions,          \* Kernel.solutions: 0..nb_solutions-1 -> Solution
    ordered_solutions,  \* Kernel.ordered_solutions: the sequence of the
                        \* solutions it refers to, each named by its place
                        \* in Kernel.solutions
    call,               \* the last call made on the kernel, its matrix
                        \* argument and the exception it raised
    nb_ranks            \* the number of rank calls made so far

vars == <<nb_criteria, nb_solutions, criteria, solutions, ordered_solutions,
          call, nb_ranks>>

\* Solution.__init__.  Solution.values[c] is the very cell
\* criteria[c].values[id]; the model keeps the cells in criteria only.
Solution(id) == [id |-> id, fi |-> Zero, fi_plus |-> Zero, fi_minus |-> Zero]

\* Kernel.__init__
NewCriteria(m, n) == Elements([c \in 0 .. m - 1 |-> KernelCriterion(c, n)], m)
NewSolutions(n) == Elements([s \in 0 .. n - 1 |-> Solution(s)], n)

\* A matrix argument: a two-dimensional ndarray, rows x cols.
EmptyMatrix == [rows |-> 0, cols |-> 0, data |-> <<>>]

NoCall == [op |-> "__init__", error |-> "None", matrix |-> EmptyMatrix]

\* Kernel._assign_values.  matrix[solution_id, criterion.id] raises
\* IndexError outside the matrix; the cells assigned before that keep their
\* new values.  AssignStop is the number of (criterion, solution) pairs, in
\* the order of the loops, that are assigned.
InMatrix(matrix, s, c) == s < matrix.rows /\ c < matrix.cols

First(bad, n) == IF bad = {} THEN n ELSE CHOOSE k \in bad : \A k2 \in bad : k <= k2

AssignStop(crit, n, matrix) ==
    First({k \in 0 .. Cardinality(DOMAIN crit) * n - 1 :
              ~InMatrix(matrix, k % n, k \div n)},
          Cardinality(DOMAIN crit) * n)

AssignUpTo(crit, n, matrix, stop) ==
    Elements([c \in 0 .. Cardinality(DOMAIN crit) - 1 |->
        [crit[c] EXCEPT !.values = Elements([s \in 0 .. n - 1 |->
            IF c * n + s < stop
            THEN [crit[c].values[s] EXCEPT !.value = matrix.data[s][c]]
            ELSE crit[c].values[s]], n)]], Cardinality(DOMAIN crit))

AssignValues(crit, n, matrix) ==
    AssignUpTo(crit, n, matrix, AssignStop(crit, n, matrix))

\* The first loop of rank: normalize and compute_fis for each criterion in
\* turn.  normalize reads self.criterion.normalized, which raises
\* AttributeError when the criterion is None; the criteria before it have
\* been processed.  FlowStop is the number of criteria processed.
FlowStop(crit) ==
    First({c \in DOMAIN crit : crit[c].criterion = None}, Cardinality(DOMAIN crit))

FlowsUpTo(crit, stop) ==
    Elements([c \in 0 .. Cardinality(DOMAIN crit) - 1 |->
        IF c < stop THEN compute_fis(normalize(crit[c])) ELSE crit[c]],
        Cardinality(DOMAIN crit))

ComputeFlows(crit) == FlowsUpTo(crit, FlowStop(crit))

RECURSIVE TotalWeight(_, _)
TotalWeight(crit, c) ==
    IF c < 0 THEN Zero ELSE Add(TotalWeight(crit, c - 1), crit[c].weight)

\* solution.fi_plus (flow = "fi_plus") or solution.fi_minus after the inner
\* loop over the criteria 0..c: 0.0 + sum of weight * cell flow.
RECURSIVE WeightedFlow(_, _, _, _)
WeightedFlow(crit, s, c, flow) ==
    IF c < 0 THEN Zero
    ELSE Add(WeightedFlow(crit, s, c - 1, flow),
             Mul(crit[c].weight, crit[c].values[s][flow]))

\* numpy's x / 0.0 for the x the second loop of rank can hold: the model's
\* weights are not negative, so a zero total weight means that every weight
\* is zero, x is 0.0 and the quotient is nan (with a RuntimeWarning).
NumpyDivByZero(x) == NaN

\* x /= divisor.  A zero divisor raises ZeroDivisionError when x is a
\* built-in float; FlowOk says that the division returns.
FlowOk(x, divisor) == ~NumEq(divisor, Zero) \/ x.np

TrueDiv(x, divisor) ==
    IF NumEq(divisor, Zero) THEN NumpyDivByZero(x) ELSE Div(x, divisor)

\* The divisor without the number of the other solutions.
DivisorOfWeightOnly(crit, n) ==
    TotalWeight(crit, Cardinality(DOMAIN crit) - 1)

\* total_weight * (len(self.solutions) - 1)
Divisor(crit, n) ==
    Mul(TotalWeight(crit, Cardinality(DOMAIN crit) - 1), Rat(n - 1, 1))

\* One turn of the second loop of rank, for solution sol, from the weighted
\* sums plus and minus on: fi_plus is divided, then fi_minus, then fi is set.
\* A division that raises leaves what was assigned before it.
DivideFlows(sol, plus, minus, divisor) ==
    IF ~FlowOk(plus, divisor)
    THEN [solution |-> [sol EXCEPT !.fi_plus = plus, !.fi_minus = minus],
          raised |-> TRUE]
    ELSE IF ~FlowOk(minus, divisor)
    THEN [solution |-> [sol EXCEPT !.fi_plus = TrueDiv(plus, divisor),
                                   !.fi_minus = minus],
          raised |-> TRUE]
    ELSE [solution |-> [sol EXCEPT !.fi_plus = TrueDiv(plus, divisor),
                                   !.fi_minus = TrueDiv(minus, divisor),
                                   !.fi = Sub(TrueDiv(plus, divisor),
                                              TrueDiv(minus, divisor))],
          raised |-> FALSE]

AggregateSolution(crit, sol, divisor) ==
    DivideFlows(sol,
                WeightedFlow(crit, sol.id, Cardinality(DOMAIN crit) - 1, "fi_plus"),
                WeightedFlow(crit, sol.id, Cardinality(DOMAIN crit) - 1, "fi_minus"),
                divisor)

\* The second loop of rank stops at the first solution whose turn raises.
SolutionsUpTo(turns, sols, n, stop) ==
    [solutions |-> Elements([s \in 0 .. n - 1 |->
                       IF s <= stop THEN turns[s].solution ELSE sols[s]], n),
     raised |-> stop < n]

AggregateTurns(turns, sols, n) ==
    SolutionsUpTo(turns, sols, n, First({s \in 0 .. n - 1 : turns[s].raised}, n))

\* The second loop of rank: the solutions it leaves, and whether it raised.
AggregateFlows(crit, sols, n) ==
    AggregateTurns(
        Elements([s \in 0 .. n - 1 |->
                     AggregateSolution(crit, sols[s], Divisor(crit, n))], n),
        sols, n)

\* list.sort(reverse=True, key=fi): the list is reversed, sorted in
\* ascending order by a stable insertion sort that only asks key(x) < key(y),
\* and reversed again.
Reverse(seq) == [i \in 1 .. Len(seq) |-> seq[Len(seq) + 1 - i]]

RECURSIVE Insert(_, _, _)
Insert(seq, x, sols) ==
    IF seq = <<>> THEN <<x>>
    ELSE IF Lt(sols[x].fi, sols[seq[Len(seq)]].fi)
    THEN Append(Insert(SubSeq(seq, 1, Len(seq) - 1), x, sols), seq[Len(seq)])
    ELSE Append(seq, x)

RECURSIVE SortAscending(_, _, _)
SortAscending(seq, k, sols) ==
    IF k = 0 THEN <<>>
    ELSE Insert(SortAscending(seq, k - 1, sols), seq[k], sols)

SortForward(seq, sols) == SortAscending(seq, Len(seq), sols)

SortReverse(seq, sols) == Reverse(SortAscending(Reverse(seq), Len(seq), sols))

\* The solutions in the order of Kernel.solutions.
AllSolutions(n) == [i \in 1 .. n |-> i - 1]

\* Kernel.rank past its guard: the criteria, the solutions and the order it
\* leaves, and the exception it raises ("None" when it returns).
Ranked(crit, sols, ordered, error) ==
    [criteria |-> crit, solutions |-> sols, ordered_solutions |-> ordered,
     error |-> error]

\* The end of rank with self.solutions itself sorted, in place of a
\* separate list.
RankAggregatedInPlace(flowed, aggregated, ordered, n) ==
    IF aggregated.raised
    THEN Ranked(flowed, aggregated.solutions, ordered, "ZeroDivisionError")
    ELSE Ranked(flowed,
                [k \in 0 .. n - 1 |->
                    aggregated.solutions[
                        SortReverse(AllSolutions(n), aggregated.solutions)[k + 1]]],
                SortReverse(AllSolutions(n), aggregated.solutions), "None")

RankAggregated(flowed, aggregated, ordered, n) ==
    IF aggregated.raised
    THEN Ranked(flowed, aggregated.solutions, ordered, "ZeroDivisionError")
    ELSE Ranked(flowed, aggregated.solutions,
                SortReverse(AllSolutions(n), aggregated.solutions), "None")

RankFlowed(flowed, sols, ordered, n) ==
    RankAggregated(flowed, AggregateFlows(flowed, sols, n), ordered, n)

RankAssigned(crit, assigned, sols, ordered, n) ==
    IF FlowStop(crit) < Cardinality(DOMAIN crit)
    THEN Ranked(ComputeFlows(assigned), sols, ordered, "AttributeError")
    ELSE RankFlowed(ComputeFlows(assigned), sols, ordered, n)

RankResultClearing(crit, sols, ordered, n, matrix) ==
    IF AssignStop(crit, n, matrix) < Cardinality(DOMAIN crit) * n
    THEN Ranked(AssignValues(crit, n, matrix), sols, <<>>, "IndexError")
    ELSE RankAssigned(crit, AssignValues(crit, n, matrix), sols, <<>>, n)

RankResult(crit, sols, ordered, n, matrix) ==
    IF AssignStop(crit, n, matrix) < Cardinality(DOMAIN crit) * n
    THEN Ranked(AssignValues(crit, n, matrix), sols, ordered, "IndexError")
    ELSE RankAssigned(crit, AssignValues(crit, n, matrix), sols, ordered, n)

\* ------------------------------------------------------------------------
\* The operations of the kernel
\* ------------------------------------------------------------------------
Called(op, error, matrix) == [op |-> op, error |-> error, matrix |-> matrix]

\* Kernel.__init__(nb_criteria = m, nb_solutions = n)
KernelInit(m, n) ==
    /\ nb_criteria = m
    /\ nb_solutions = n
    /\ criteria = NewCriteria(m, n)
    /\ solutions = NewSolutions(n)
    /\ ordered_solutions = <<>>
    /\ call = NoCall
    /\ nb_ranks = 0

\* Kernel.set_criterion(id, criterion, weight); self.criteria[id] raises
\* IndexError past the end of the list.
set_criterion(id, criterion, weight) ==
    /\ IF id \in DOMAIN criteria
       THEN /\ criteria' = [criteria EXCEPT ![id].criterion = criterion,
                                            ![id].weight = weight]
            /\ call' = Called("set_criterion", "None", EmptyMatrix)
       ELSE /\ criteria' = criteria
            /\ call' = Called("set_criterion", "IndexError", EmptyMatrix)
    /\ UNCHANGED <<nb_criteria, nb_solutions, solutions, ordered_solutions, nb_ranks>>

\* Kernel.apply_config(config): config maps criterion names to dictionaries.
\* criterion.criterion.name raises AttributeError at the first criterion
\* that has no policy; the criteria before it have been configured.
ConfigStop(crit) == FlowStop(crit)

ApplyWeight(kc, criterion_dict) ==
    IF "weight" \in DOMAIN criterion_dict
    THEN [kc EXCEPT !.weight = Typed(criterion_dict["weight"], FALSE)]
    ELSE kc

ApplyConfigTo(kc, config) ==
    IF kc.criterion.name \notin DOMAIN config THEN kc
    ELSE ApplyWeight(
             [kc EXCEPT !.criterion =
                 LinearApplyConfig(kc.criterion, config[kc.criterion.name])],
             config[kc.criterion.name])

apply_config(config) ==
    /\ criteria' = Elements([c \in 0 .. nb_criteria - 1 |->
                      IF c < ConfigStop(criteria)
                      THEN ApplyConfigTo(criteria[c], config) ELSE criteria[c]], nb_criteria)
    /\ call' = Called("apply_config",
                      IF ConfigStop(criteria) < nb_criteria
                      THEN "AttributeError" ELSE "None", EmptyMatrix)
               @@ [config |-> config]
    /\ UNCHANGED <<nb_criteria, nb_solutions, solutions, ordered_solutions, nb_ranks>>

\* The guard of rank: nothing can be compared.
TrivialRankingNarrow(n, m) == n < 1 \/ m = 0

TrivialRankingWide(n, m) == n <= 2 \/ m = 0

TrivialRanking(n, m) == n < 2 \/ m = 0

\* Kernel.rank(matrix)
rank(matrix) ==
    /\ nb_ranks < MaxRanks
    /\ nb_ranks' = nb_ranks + 1
    /\ IF TrivialRanking(nb_solutions, nb_criteria)
       THEN /\ ordered_solutions' = AllSolutions(nb_solutions)
            /\ call' = Called("rank", "None", matrix)
            /\ UNCHANGED <<criteria, solutions>>
       ELSE LET r == RankResult(criteria, solutions, ordered_solutions,
                                nb_solutions, matrix)
            IN  /\ criteria' = r.criteria
                /\ solutions' = r.solutions
                /\ ordered_solutions' = r.ordered_solutions
                /\ call' = Called("rank", r.error, matrix)
    /\ UNCHANGED <<nb_criteria, nb_solutions>>

\* ------------------------------------------------------------------------
\* The inputs of the model
\* ------------------------------------------------------------------------
\* Raw values: entries of an ndarray.
Values == {AsNumpy(Rat(v, 1)) : v \in 1 .. MaxValue}

Matrices(rows, cols) ==
    {[rows |-> rows, cols |-> cols, data |-> d] :
        d \in [0 .. rows - 1 -> [0 .. cols - 1 -> Values]]}

Weights == {Rat(w, 1) : w \in 0 .. MaxWeight}

\* The name the caller gives to the policy of criterion id.
CriterionNames == <<"a", "b", "c", "d">>
NameOf(id) == CriterionNames[id + 1]

\* The thresholds the ranked policies are built with.  The used values of a
\* normalised column are 0 and 1 (and fractions between, from three values
\* on): with p = 3/2 and q = 1/2 a difference of 1 falls in the linear zone.
RankP == Rat(3, 2)
RankQ == Rat(1, 2)

\* Configurations that set the weight of one criterion, and the empty one.
WeightConfigs ==
    {<<>>} \cup {[nm \in {NameOf(id)} |-> [k \in {"weight"} |-> w]] :
                    id \in 0 .. MaxCriteria - 1, w \in Weights}

\* ------------------------------------------------------------------------
\* Spec: a kernel of any size up to MaxCells cells is set up (each criterion
\* is given a policy once, apply_config changes weights) and then ranks
\* matrices of its own shape, up to the MaxRanks-th rank call.
\* ------------------------------------------------------------------------
Init ==
    \E m \in 0 .. MaxCriteria, n \in 0 .. MaxSolutions :
        /\ m * n <= MaxCells
        /\ KernelInit(m, n)

SetCriterion ==
    /\ nb_ranks = 0
    /\ \E id \in 0 .. nb_criteria, type \in CriterionType, weight \in Weights :
        /\ id \in DOMAIN criteria => criteria[id].criterion = None
        /\ set_criterion(id, LinearCriterion(NameOf(id), type, RankP, RankQ), weight)

ApplyConfig ==
    /\ nb_ranks = 0
    /\ \E config \in WeightConfigs : apply_config(config)

Rank == \E matrix \in Matrices(nb_solutions, nb_criteria) : rank(matrix)

Next == SetCriterion \/ ApplyConfig \/ Rank

Spec == Init /\ [][Next]_vars

\* ------------------------------------------------------------------------
\* SpecPref: LinearCriterion.compute_pref on its own, for every policy and
\* every pair of values of a grid; call holds the arguments and the result.
\* ------------------------------------------------------------------------
PrefGrid == {Rat(k, MaxPrefSteps) : k \in 0 .. MaxPrefSteps}

PrefInit == KernelInit(0, 0)

ComputePref ==
    /\ call.op = "__init__"
    /\ \E type \in CriterionType, p \in PrefGrid, q \in PrefGrid,
          u \in PrefGrid, v \in PrefGrid :
          call' = [op |-> "compute_pref", error |-> "None", matrix |-> EmptyMatrix,
                   self |-> LinearCriterion("a", type, p, q),
                   u |-> AsNumpy(u), v |-> AsNumpy(v),
                   result |-> compute_pref(LinearCriterion("a", type, p, q),
                                           AsNumpy(u), AsNumpy(v))]
    /\ UNCHANGED <<nb_criteria, nb_solutions, criteria, solutions,
                   ordered_solutions, nb_ranks>>

SpecPref == PrefInit /\ [][ComputePref]_vars

\* ------------------------------------------------------------------------
\* SpecCars: the scenario of tests/__init__.py.  The four policies are set
\* with the default thresholds and weight, in any order; apply_config gives
\* the thresholds and the weights, the weight of Power being weight_power;
\* the matrix of the test is ranked.
\* ------------------------------------------------------------------------
CarsCriteria == 4
CarsSolutions == 4

DefaultP == Rat(1, 10)
DefaultQ == Rat(1, 20)

CarsNames == <<"Price", "Cons", "Comfort", "Power">>
CarsTypes == <<LinearMinimize, LinearMinimize, LinearMaximize, LinearMaximize>>

CarsEntry(weight) == [weight |-> weight, p |-> Rat(1, 5), q |-> Rat(1, 20)]

CarsConfig(weight_power) ==
    [nm \in {"Price", "Cons", "Comfort", "Power"} |->
        IF nm = "Power" THEN CarsEntry(Rat(weight_power, 1)) ELSE CarsEntry(One)]

CarsRows ==
    <<<<Rat(35, 4), Rat(31, 5), Rat(1, 1), Rat(30, 1)>>,
      <<Rat(55, 4), Rat(15, 2), Rat(1, 1), Rat(50, 1)>>,
      <<Rat(25, 1), Rat(8, 1), Rat(3, 1), Rat(80, 1)>>,
      <<Rat(125, 2), Rat(20, 1), Rat(2, 1), Rat(120, 1)>>>>

CarsMatrix ==
    [rows |-> CarsSolutions, cols |-> CarsCriteria,
     data |-> [s \in 0 .. CarsSolutions - 1 |->
                  [c \in 0 .. CarsCriteria - 1 |-> AsNumpy(CarsRows[s + 1][c + 1])]]]

CarsSetCriterion ==
    /\ nb_ranks = 0
    /\ \E id \in 0 .. CarsCriteria - 1 :
        /\ criteria[id].criterion = None
        /\ set_criterion(id, LinearCriterion(CarsNames[id + 1], CarsTypes[id + 1],
                                             DefaultP, DefaultQ), Zero)

CarsApplyConfig ==
    /\ nb_ranks = 0
    /\ \E weight_power \in 1 .. MaxWeightPower : apply_config(CarsConfig(weight_power))

CarsRank == nb_ranks < MaxRanks /\ rank(CarsMatrix)

CarsNext == CarsSetCriterion \/ CarsApplyConfig \/ CarsRank

CarsInit == KernelInit(CarsCriteria, CarsSolutions)

SpecCars == CarsInit /\ [][CarsNext]_vars

\* ------------------------------------------------------------------------
\* SpecShape: a kernel set up as in Spec is given, as its first rank call, a
\* matrix that has up to one row or column more than the kernel, or fewer,
\* and not the kernel's shape.  The cells the kernel has no solution or
\* criterion for hold 1.
\* ------------------------------------------------------------------------
Resized(matrix, rows, cols) ==
    [rows |-> rows, cols |-> cols,
     data |-> [s \in 0 .. rows - 1 |-> [c \in 0 .. cols - 1 |->
                  IF InMatrix(matrix, s, c) THEN matrix.data[s][c] ELSE AsNumpy(One)]]]

RankMismatched ==
    /\ nb_ranks = 0
    /\ \E rows \in 0 .. nb_solutions + 1, cols \in 0 .. nb_criteria + 1 :
        /\ rows # nb_solutions \/ cols # nb_criteria
        /\ \E matrix \in Matrices(nb_solutions, nb_criteria) :
               rank(Resized(matrix, rows, cols))

ShapeNext == SetCriterion \/ ApplyConfig \/ RankMismatched

SpecShape == Init /\ [][ShapeNext]_vars

\* ------------------------------------------------------------------------
\* SpecConfig: a kernel of up to MaxConfigCells cells whose policies are
\* built with any thresholds of a grid, p <= q included, and configured by
\* apply_config with any of "p", "q" and "weight" for one criterion name,
\* each apply_config call being followed by a call of another method.
\* ------------------------------------------------------------------------
ConfigThresholds == {Rat(k, 2) : k \in 1 .. MaxThreshold}

\* A dictionary with the keys whose value is not None.
Entry(p, q, weight) ==
    [k \in {k \in {"p", "q", "weight"} :
                \/ k = "p" /\ p # None
                \/ k = "q" /\ q # None
                \/ k = "weight" /\ weight # None} |->
        IF k = "p" THEN p ELSE IF k = "q" THEN q ELSE weight]

\* The dictionaries of one name; half of them also hold a key that neither
\* apply_config looks at.
Configs ==
    {<<>>} \cup
    {[nm \in {NameOf(id)} |-> Entry(p, q, weight) @@ [k \in other |-> One]] :
        id \in 0 .. MaxCriteria - 1,
        p \in ConfigThresholds \cup {None},
        q \in ConfigThresholds \cup {None},
        weight \in Weights \cup {None},
        other \in {{}, {"r"}}}

ConfigInit ==
    \E m \in 0 .. MaxCriteria, n \in 0 .. MaxSolutions :
        /\ m * n <= MaxConfigCells
        /\ KernelInit(m, n)

SetCriterionAny ==
    /\ nb_ranks = 0
    /\ \E id \in 0 .. nb_criteria, type \in CriterionType, p \in ConfigThresholds,
          q \in ConfigThresholds, weight \in Weights :
        /\ id \in DOMAIN criteria => criteria[id].criterion = None
        /\ set_criterion(id, LinearCriterion(NameOf(id), type, p, q), weight)

ApplyConfigAny ==
    /\ nb_ranks = 0
    /\ call.op # "apply_config"
    /\ \E config \in Configs : apply_config(config)

ConfigNext == SetCriterionAny \/ ApplyConfigAny \/ Rank

SpecConfig == ConfigInit /\ [][ConfigNext]_vars

\* ------------------------------------------------------------------------
\* SpecFailure: a kernel of up to MaxConfigCells cells, set up as in Spec,
\* whose weights apply_config also changes between rank calls, and whose
\* rank calls are given matrices of the kernel's shape and of other shapes
\* in any order: rank calls that fail follow rank calls that returned.
\* ------------------------------------------------------------------------
ApplyConfigLate ==
    /\ nb_ranks < MaxRanks
    /\ \E config \in WeightConfigs : apply_config(config)

RankResized ==
    \E rows \in 0 .. nb_solutions + 1, cols \in 0 .. nb_criteria + 1 :
        /\ rows # nb_solutions \/ cols # nb_criteria
        /\ \E matrix \in Matrices(nb_solutions, nb_criteria) :
               rank(Resized(matrix, rows, cols))

FailureNext == SetCriterion \/ ApplyConfigLate \/ Rank \/ RankResized

SpecFailure == ConfigInit /\ [][FailureNext]_vars

\* ------------------------------------------------------------------------
\* SpecNormalize: a kernel of one criterion, whose policy asks for normalised
\* or for raw values, ranks columns of the raw values 1 .. MaxRawValue.
\* ------------------------------------------------------------------------
RawValues == {AsNumpy(Rat(v, 1)) : v \in 1 .. MaxRawValue}

RawMatrices(rows, cols) ==
    {[rows |-> rows, cols |-> cols, data |-> d] :
        d \in [0 .. rows - 1 -> [0 .. cols - 1 -> RawValues]]}

NormalizeInit == \E n \in 0 .. MaxSolutions : KernelInit(1, n)

SetPolicy ==
    /\ nb_ranks = 0
    /\ criteria[0].criterion = None
    /\ \E type \in CriterionType, normalized \in BOOLEAN, weight \in Weights :
          set_criterion(0, IF normalized
                           THEN LinearCriterion(NameOf(0), type, RankP, RankQ)
                           ELSE RawLinearCriterion(NameOf(0), type, RankP, RankQ),
                        weight)

RankRaw == \E matrix \in RawMatrices(nb_solutions, nb_criteria) : rank(matrix)

NormalizeNext == SetPolicy \/ RankRaw

SpecNormalize == NormalizeInit /\ [][NormalizeNext]_vars

\* ------------------------------------------------------------------------
\* Properties
\* ------------------------------------------------------------------------
\* The kernel has just been through a rank call.
RankCalled == call.op = "rank"

\* The last call was a rank that returned normally.
RankReturned == call.op = "rank" /\ call.error = "None"

\* The sum f[0] + ... + f[n - 1] of numbers.
RECURSIVE SumOver(_, _)
SumOver(f, n) == IF n = 0 THEN Zero ELSE Add(SumOver(f, n - 1), f[n - 1])

\* C1: after a rank that returns normally, ordered_solutions holds every
\* solution index exactly once, each solution's fi is at most the fi of the
\* solution listed before it, and solutions of equal fi are listed by
\* ascending index.
C1_RankingOrder ==
    RankReturned =>
        /\ Len(ordered_solutions) = nb_solutions
        /\ \A s \in 0 .. nb_solutions - 1 :
               Cardinality({k \in DOMAIN ordered_solutions :
                               ordered_solutions[k] = s}) = 1
        /\ \A k \in 1 .. Len(ordered_solutions) - 1 :
               Le(solutions[ordered_solutions[k + 1]].fi,
                  solutions[ordered_solutions[k]].fi)
        /\ \A j \in DOMAIN ordered_solutions, k \in DOMAIN ordered_solutions :
               (j < k /\ NumEq(solutions[ordered_solutions[j]].fi,
                               solutions[ordered_solutions[k]].fi))
               => ordered_solutions[j] < ordered_solutions[k]

\* C2: in the scenario of the test (four cars, four linear criteria set up
\* with the default thresholds and then given p = 0.2, q = 0.05 and weight 1
\* by apply_config), the first rank of the test's matrix on the kernel orders
\* the solutions 2, 1, 0, 3 when the weight of Power is 1, and 3, 2, 1, 0
\* when it is 4.
C2_CarsRanking ==
    (/\ RankReturned
     /\ nb_ranks = 1
     /\ \A c \in DOMAIN criteria :
            /\ criteria[c].criterion # None
            /\ NumEq(criteria[c].criterion.p, Rat(1, 5))
            /\ NumEq(criteria[c].criterion.q, Rat(1, 20))
     /\ \A c \in 0 .. CarsCriteria - 2 : NumEq(criteria[c].weight, One))
    => /\ NumEq(criteria[CarsCriteria - 1].weight, Rat(1, 1))
          => ordered_solutions = <<2, 1, 0, 3>>
       /\ NumEq(criteria[CarsCriteria - 1].weight, Rat(4, 1))
          => ordered_solutions = <<3, 2, 1, 0>>

\* The scenario has been ranked with the weight of Power at 4, and the
\* ranking differs from the one the weight 1 gives.
C2_Witness ==
    /\ RankReturned
    /\ nb_ranks = 1
    /\ nb_solutions = CarsSolutions
    /\ \A c \in DOMAIN criteria :
           criteria[c].criterion # None /\ NumEq(criteria[c].criterion.p, Rat(1, 5))
    /\ NumEq(criteria[CarsCriteria - 1].weight, Rat(4, 1))
    /\ ordered_solutions = <<3, 2, 1, 0>>

\* C3: a rank call that follows a rank call of the same matrix on the same
\* kernel, the configuration unchanged, leaves ordered_solutions, the flows
\* of every solution and the flows of every cell as the first call left them.
C3_RankIdempotent ==
    [][(RankReturned /\ call'.op = "rank" /\ nb_ranks' = nb_ranks + 1
                     /\ call'.matrix = call.matrix)
       => /\ ordered_solutions' = ordered_solutions
          /\ \A s \in DOMAIN solutions :
                 /\ solutions'[s].fi_plus = solutions[s].fi_plus
                 /\ solutions'[s].fi_minus = solutions[s].fi_minus
                 /\ solutions'[s].fi = solutions[s].fi
          /\ \A c \in DOMAIN criteria : \A s \in DOMAIN solutions :
                 /\ criteria'[c].values[s].fi_plus = criteria[c].values[s].fi_plus
                 /\ criteria'[c].values[s].fi_minus = criteria[c].values[s].fi_minus
                 /\ criteria'[c].values[s].fi = criteria[c].values[s].fi]_vars

\* C4: after rank(M) returns, the cells, the solutions and ordered_solutions
\* are what rank(M) leaves on a freshly constructed kernel that has the same
\* policies and weights, whatever was ranked on the kernel before.
C4_RankOverwrites ==
    RankReturned =>
        LET fresh == RankResult(
                [c \in DOMAIN criteria |->
                    [criteria[c] EXCEPT
                        !.values = KernelCriterion(c, nb_solutions).values]],
                NewSolutions(nb_solutions), <<>>, nb_solutions, call.matrix)
        IN  IF TrivialRanking(nb_solutions, nb_criteria)
            THEN /\ criteria = NewCriteria(nb_criteria, nb_solutions)
                    \/ \E c \in DOMAIN criteria : criteria[c].criterion # None
                 /\ \A c \in DOMAIN criteria :
                        criteria[c].values = KernelCriterion(c, nb_solutions).values
                 /\ solutions = NewSolutions(nb_solutions)
                 /\ ordered_solutions = AllSolutions(nb_solutions)
            ELSE /\ criteria = fresh.criteria
                 /\ solutions = fresh.solutions
                 /\ ordered_solutions = fresh.ordered_solutions

\* C5: with p > q >= 0, compute_pref(u, v) is 0 when d = |u - v| <= q; when
\* d >= p it is 1 if u is better than v in the direction of the criterion
\* and 0 otherwise; between the thresholds it is (d - q) / (p - q) if u is
\* better and 0 otherwise; and it lies in [0, 1].
C5_LinearPreference ==
    (call.op = "compute_pref" /\ Lt(call.self.q, call.self.p)
                             /\ Le(Zero, call.self.q))
    => LET d == AbsNum(Sub(call.u, call.v))
           better == IF call.self.type = LinearMaximize
                     THEN Lt(call.v, call.u) ELSE Lt(call.u, call.v)
       IN  /\ Le(d, call.self.q) => NumEq(call.result, Zero)
           /\ Le(call.self.p, d) =>
                  NumEq(call.result, IF better THEN One ELSE Zero)
           /\ (Lt(call.self.q, d) /\ Lt(d, call.self.p)) =>
                  IF better
                  THEN Lt(Zero, Sub(call.self.p, call.self.q)) /\
                       call.result.n * (call.self.p.n * call.self.q.d
                                        - call.self.q.n * call.self.p.d)
                           * d.d
                       = call.result.d * (d.n * call.self.q.d - call.self.q.n * d.d)
                           * call.self.p.d
                  ELSE NumEq(call.result, Zero)
           /\ Le(Zero, call.result) /\ Le(call.result, One)

\* C6: on a kernel with fewer than two solutions or no criterion, every rank
\* call returns without error and leaves ordered_solutions at all the
\* solutions in index order and every solution's fi, fi_plus and fi_minus at
\* zero.
C6_TrivialRanking ==
    (RankCalled /\ (nb_solutions < 2 \/ nb_criteria = 0))
    => /\ call.error = "None"
       /\ ordered_solutions = [k \in 1 .. nb_solutions |-> k - 1]
       /\ \A s \in DOMAIN solutions :
              /\ NumEq(solutions[s].fi, Zero)
              /\ NumEq(solutions[s].fi_plus, Zero)
              /\ NumEq(solutions[s].fi_minus, Zero)

\* A kernel of one solution and at least one criterion, which has a policy
\* and a weight, has been ranked MaxRanks times.
C6_Witness ==
    /\ RankCalled
    /\ nb_solutions = 1
    /\ nb_criteria >= 1
    /\ nb_ranks = MaxRanks
    /\ \A c \in DOMAIN criteria :
           criteria[c].criterion # None /\ Lt(Zero, criteria[c].weight)
    /\ ordered_solutions = <<0>>

\* C7: a linear policy with p <= q is rejected at setup: after a
\* set_criterion or an apply_config that returned normally every policy of
\* the kernel has p > q, and so has every policy whose compute_pref a rank
\* call has evaluated.
C7_ThresholdsValidated ==
    /\ (call.op \in {"set_criterion", "apply_config"} /\ call.error = "None")
       => \A c \in DOMAIN criteria :
              criteria[c].criterion # None
              => Lt(criteria[c].criterion.q, criteria[c].criterion.p)
    /\ (/\ RankCalled
        /\ ~TrivialRanking(nb_solutions, nb_criteria)
        /\ call.error \in {"None", "ZeroDivisionError"})
       => \A c \in DOMAIN criteria :
              Lt(criteria[c].criterion.q, criteria[c].criterion.p)

\* C8: a rank call with a matrix that has not exactly nb_solutions rows and
\* nb_criteria columns ends in an error and sets no ranking.
C8_ShapeRejected ==
    (RankCalled /\ (call.matrix.rows # nb_solutions
                    \/ call.matrix.cols # nb_criteria))
    => call.error # "None" /\ ordered_solutions = <<>>

\* C9 as stated: on a kernel of any size, a rank call made while a criterion
\* has no policy ends in an error.
C9_UnassignedRejected ==
    (RankCalled /\ \E c \in DOMAIN criteria : criteria[c].criterion = None)
    => call.error # "None"

\* C9: on a kernel of at least two solutions, a rank call made while a
\* criterion has no policy ends in an error and leaves ordered_solutions as
\* it was at construction.  (The policies do not change after the first
\* rank call, so the criteria without a policy after the call are those
\* without a policy before it.)
C9_UnassignedRejectedWhenComparing ==
    (/\ RankCalled
     /\ nb_solutions >= 2
     /\ \E c \in DOMAIN criteria : criteria[c].criterion = None)
    => call.error # "None" /\ ordered_solutions = <<>>

\* A kernel of two criteria, the first with a policy and the second without,
\* has been ranked: the call raised at the second criterion, after the flows
\* of the first were computed.
C9_Witness ==
    /\ RankCalled
    /\ nb_solutions >= 2
    /\ nb_criteria = 2
    /\ criteria[0].criterion # None
    /\ criteria[1].criterion = None
    /\ call.error = "AttributeError"
    /\ \E s \in DOMAIN solutions : ~NumEq(criteria[0].values[s].fi, Zero)

\* C10: a rank call on a kernel of at least two solutions and one criterion,
\* every criterion with a policy, the weights summing to zero, ends in an
\* error: it does not return normally, and no flow of a solution is NaN.
C10_ZeroWeightRejected ==
    (/\ RankCalled
     /\ nb_solutions >= 2
     /\ nb_criteria >= 1
     /\ \A c \in DOMAIN criteria : criteria[c].criterion # None
     /\ NumEq(TotalWeight(criteria, nb_criteria - 1), Zero))
    => /\ call.error # "None"
       /\ \A s \in DOMAIN solutions :
              ~IsNaN(solutions[s].fi) /\ ~IsNaN(solutions[s].fi_plus)
                                      /\ ~IsNaN(solutions[s].fi_minus)

\* compute_pref has been called in the linear zone with u the better value,
\* and its result is strictly between 0 and 1.
C5_Witness ==
    /\ call.op = "compute_pref"
    /\ Lt(call.self.q, call.self.p)
    /\ call.self.type = LinearMinimize
    /\ Lt(call.u, call.v)
    /\ Lt(call.self.q, AbsNum(Sub(call.u, call.v)))
    /\ Lt(AbsNum(Sub(call.u, call.v)), call.self.p)
    /\ Lt(Zero, call.result) /\ Lt(call.result, One)

\* C11: a rank call that ends in an error leaves ordered_solutions exactly
\* as it was before the call.
C11_FailedRankKeepsOrder ==
    [][(call'.op = "rank" /\ nb_ranks' = nb_ranks + 1 /\ call'.error # "None")
       => ordered_solutions' = ordered_solutions]_vars

\* A rank call has failed on a kernel whose earlier rank returned the
\* ranking 1, 0, and that ranking is still there.
C11_Witness ==
    /\ RankCalled
    /\ nb_ranks = 2
    /\ call.error \in {"IndexError", "ZeroDivisionError"}
    /\ ordered_solutions = <<1, 0>>

\* C12: after a rank that returns, whatever was ranked on the kernel before,
\* two solutions with the same raw value on every criterion have equal fi,
\* and the one of lower index is listed first.
C12_IdenticalSolutionsTie ==
    RankReturned =>
        \A i \in DOMAIN solutions, j \in DOMAIN solutions :
            (/\ i < j
             /\ \A c \in DOMAIN criteria :
                    criteria[c].values[i].value = criteria[c].values[j].value)
            => /\ NumEq(solutions[i].fi, solutions[j].fi)
               /\ \E k \in DOMAIN ordered_solutions, l \in DOMAIN ordered_solutions :
                      k < l /\ ordered_solutions[k] = i /\ ordered_solutions[l] = j

\* C13: apply_config(config) raises no error and, for every criterion, sets
\* exactly the parameters among p, q and weight that the entry of config
\* under the name of the criterion's policy holds, to the values given there;
\* a criterion whose name config does not hold, a parameter whose key the
\* entry does not hold, and every other key and name change nothing.
C13_ApplyConfigFrame ==
    [][call'.op = "apply_config"
       => /\ call'.error = "None"
          /\ \A c \in DOMAIN criteria :
                 IF criteria[c].criterion # None
                    /\ criteria[c].criterion.name \in DOMAIN call'.config
                 THEN LET entry == call'.config[criteria[c].criterion.name]
                      IN  /\ criteria'[c].criterion.p =
                                 IF "p" \in DOMAIN entry THEN entry["p"]
                                 ELSE criteria[c].criterion.p
                          /\ criteria'[c].criterion.q =
                                 IF "q" \in DOMAIN entry THEN entry["q"]
                                 ELSE criteria[c].criterion.q
                          /\ criteria'[c].weight =
                                 IF "weight" \in DOMAIN entry THEN entry["weight"]
                                 ELSE criteria[c].weight
                          /\ criteria'[c] =
                                 [criteria[c] EXCEPT
                                     !.criterion.p = criteria'[c].criterion.p,
                                     !.criterion.q = criteria'[c].criterion.q,
                                     !.weight = criteria'[c].weight]
                 ELSE criteria'[c] = criteria[c]]_vars

\* C14: in the initial state and after every rank call that returns, every
\* cell and every solution has fi = fi_plus - fi_minus.
C14_FiIsDifference ==
    (call.op = "__init__" \/ RankReturned)
    => /\ \A c \in DOMAIN criteria : \A s \in DOMAIN solutions :
              NumEq(criteria[c].values[s].fi,
                    Sub(criteria[c].values[s].fi_plus, criteria[c].values[s].fi_minus))
       /\ \A s \in DOMAIN solutions :
              NumEq(solutions[s].fi, Sub(solutions[s].fi_plus, solutions[s].fi_minus))

\* C15: after a rank call that returns on a kernel of at least two solutions
\* and one criterion, the fi_plus of cell (c, i) is the sum over the other
\* solutions j of compute_pref(used[i], used[j]) and its fi_minus the sum of
\* compute_pref(used[j], used[i]), used being the used values of column c.
C15_CellFlows ==
    (RankReturned /\ nb_solutions >= 2 /\ nb_criteria >= 1)
    => \A c \in DOMAIN criteria : \A i \in DOMAIN solutions :
           /\ NumEq(criteria[c].values[i].fi_plus,
                    SumOver([j \in DOMAIN solutions |->
                                IF j = i THEN Zero
                                ELSE compute_pref(criteria[c].criterion,
                                                  criteria[c].values[i].used_value,
                                                  criteria[c].values[j].used_value)],
                            nb_solutions))
           /\ NumEq(criteria[c].values[i].fi_minus,
                    SumOver([j \in DOMAIN solutions |->
                                IF j = i THEN Zero
                                ELSE compute_pref(criteria[c].criterion,
                                                  criteria[c].values[j].used_value,
                                                  criteria[c].values[i].used_value)],
                            nb_solutions))

\* C16: after a rank call that returns, for every criterion the cells'
\* fi_plus, summed over the solutions, equal the cells' fi_minus summed over
\* the solutions.
C16_FlowConservation ==
    RankReturned
    => \A c \in DOMAIN criteria :
           NumEq(SumOver([s \in DOMAIN solutions |-> criteria[c].values[s].fi_plus],
                         nb_solutions),
                 SumOver([s \in DOMAIN solutions |-> criteria[c].values[s].fi_minus],
                         nb_solutions))

\* C17: after the normalize of a rank call, a criterion whose policy asks for
\* normalisation and whose raw values are not all equal has
\* used_value = (raw - min) / (max - min) in every cell, min and max being
\* the least and the greatest raw value of its column; every used_value is
\* in [0, 1], 0 at the minimum and 1 at the maximum.  A criterion whose
\* policy asks for no normalisation has used_value = raw in every cell.
C17_Normalization ==
    (/\ RankCalled
     /\ ~TrivialRanking(nb_solutions, nb_criteria)
     /\ call.error \in {"None", "ZeroDivisionError"})
    => \A c \in DOMAIN criteria :
        LET raw == [s \in DOMAIN solutions |-> criteria[c].values[s].value]
            used == [s \in DOMAIN solutions |-> criteria[c].values[s].used_value]
            min == raw[CHOOSE s \in DOMAIN solutions :
                          \A t \in DOMAIN solutions : Le(raw[s], raw[t])]
            max == raw[CHOOSE s \in DOMAIN solutions :
                          \A t \in DOMAIN solutions : Le(raw[t], raw[s])]
        IN  /\ \A s \in DOMAIN solutions : raw[s] = call.matrix.data[s][c]
            /\ (criteria[c].criterion.normalized /\ Lt(min, max))
               => \A s \in DOMAIN solutions :
                      /\ (used[s].n * (max.n - min.n) = used[s].d * (raw[s].n - min.n))
                      /\ Le(Zero, used[s]) /\ Le(used[s], One)
                      /\ NumEq(raw[s], min) => NumEq(used[s], Zero)
                      /\ NumEq(raw[s], max) => NumEq(used[s], One)
            /\ ~criteria[c].criterion.normalized
               => \A s \in DOMAIN solutions : NumEq(used[s], raw[s])

\* A column of three different raw values has been normalised in the second
\* rank call of a kernel: one used value is strictly between 0 and 1.
C17_Witness ==
    /\ RankCalled
    /\ nb_ranks = 2
    /\ nb_solutions = 3
    /\ criteria[0].criterion # None
    /\ criteria[0].criterion.normalized
    /\ \A s \in DOMAIN solutions, t \in DOMAIN solutions :
           s # t => ~NumEq(criteria[0].values[s].value, criteria[0].values[t].value)
    /\ \E s \in DOMAIN solutions :
           /\ Lt(Zero, criteria[0].values[s].used_value)
           /\ Lt(criteria[0].values[s].used_value, One)

\* C18: a rank call with a matrix in which all raw values of a normalized
\* criterion are equal is no error, whatever was ranked before: on a kernel whose criteria
\* all have a policy and whose weights do not sum to zero the call returns,
\* and after it every cell of that criterion has used_value 1, fi_plus 0
\* and fi_minus 0.
C18_DegenerateColumn ==
    (/\ RankCalled
     /\ ~TrivialRanking(nb_solutions, nb_criteria)
     /\ \A c \in DOMAIN criteria : criteria[c].criterion # None
     /\ ~NumEq(TotalWeight(criteria, nb_criteria - 1), Zero))
    => \A c \in DOMAIN criteria :
           (/\ criteria[c].criterion.normalized
            /\ \A s \in DOMAIN solutions :
                   call.matrix.data[s][c] = call.matrix.data[0][c])
           => /\ call.error = "None"
              /\ \A s \in DOMAIN solutions :
                     /\ NumEq(criteria[c].values[s].used_value, One)
                     /\ NumEq(criteria[c].values[s].fi_plus, Zero)
                     /\ NumEq(criteria[c].values[s].fi_minus, Zero)

\* C19: after a rank call that returns on a kernel of at least two solutions
\* and one criterion whose weights do not sum to zero, every solution's
\* fi_plus is (sum over the criteria c of weight_c * fi_plus of cell (c, s))
\* divided by (total weight * (nb_solutions - 1)), its fi_minus is the same
\* expression over the cells' fi_minus, and its fi is fi_plus - fi_minus.
C19_AggregateFlows ==
    (/\ RankReturned
     /\ nb_solutions >= 2
     /\ nb_criteria >= 1
     /\ ~NumEq(SumOver([c \in DOMAIN criteria |-> criteria[c].weight], nb_criteria),
               Zero))
    => \A s \in DOMAIN solutions :
           /\ NumEq(solutions[s].fi_plus,
                    Div(SumOver([c \in DOMAIN criteria |->
                                    Mul(criteria[c].weight,
                                        criteria[c].values[s].fi_plus)],
                                nb_criteria),
                        Mul(SumOver([c \in DOMAIN criteria |-> criteria[c].weight],
                                    nb_criteria),
                            Rat(nb_solutions - 1, 1))))
           /\ NumEq(solutions[s].fi_minus,
                    Div(SumOver([c \in DOMAIN criteria |->
                                    Mul(criteria[c].weight,
                                        criteria[c].values[s].fi_minus)],
                                nb_criteria),
                        Mul(SumOver([c \in DOMAIN criteria |-> criteria[c].weight],
                                    nb_criteria),
                            Rat(nb_solutions - 1, 1))))
           /\ NumEq(solutions[s].fi,
                    Sub(solutions[s].fi_plus, solutions[s].fi_minus))

\* A rank has returned on three solutions and a criterion of weight 1, and
\* some solution has a fi_plus and another a fi_minus that is not zero.
C19_Witness ==
    /\ RankReturned
    /\ nb_solutions = 3
    /\ nb_criteria = 1
    /\ NumEq(criteria[0].weight, One)
    /\ \E s \in DOMAIN solutions : Lt(Zero, solutions[s].fi_plus)
    /\ \E s \in DOMAIN solutions : Lt(Zero, solutions[s].fi_minus)

\* Two flows are the same number, or both nan.
SameFlow(x, y) == (IsNaN(x) /\ IsNaN(y)) \/ NumEq(x, y)

\* The matrices m1 and m2 differ at most in the columns of the criteria of
\* weight 0.
AgreeOutsideZeroWeight(crit, m1, m2) ==
    \A c \in DOMAIN crit :
        ~NumEq(crit[c].weight, Zero)
        => \A s \in 0 .. m1.rows - 1 : m1.data[s][c] = m2.data[s][c]

\* The outcome r of a rank call has the aggregate flows sols and the
\* ranking ordered.
SameRanking(r, sols, ordered) ==
    /\ r.ordered_solutions = ordered
    /\ \A s \in DOMAIN sols :
           /\ SameFlow(r.solutions[s].fi_plus, sols[s].fi_plus)
           /\ SameFlow(r.solutions[s].fi_minus, sols[s].fi_minus)
           /\ SameFlow(r.solutions[s].fi, sols[s].fi)

\* The cells of criterion kc hold the column of matrix, its used values and
\* flows made of this call's preferences.
ColumnComputed(kc, matrix, n) ==
    \A s \in 0 .. n - 1 :
        /\ kc.values[s].value = matrix.data[s][kc.id]
        /\ (\A t \in 0 .. n - 1 : matrix.data[t][kc.id] = matrix.data[s][kc.id])
           => NumEq(kc.values[s].used_value, One)
        /\ \A t \in 0 .. n - 1 :
               Lt(matrix.data[s][kc.id], matrix.data[t][kc.id])
               => Lt(kc.values[s].used_value, kc.values[t].used_value)
        /\ NumEq(kc.values[s].fi_plus,
                 SumOver([t \in 0 .. n - 1 |->
                             IF t = s THEN Zero
                             ELSE compute_pref(kc.criterion,
                                               kc.values[s].used_value,
                                               kc.values[t].used_value)], n))
        /\ Le(SumOver([t \in 0 .. n - 1 |->
                          IF t = s THEN Zero
                          ELSE compute_pref(kc.criterion,
                                            kc.values[t].used_value,
                                            kc.values[s].used_value)], n),
              kc.values[s].fi_minus)
        /\ NumEq(kc.values[s].fi, Sub(kc.values[s].fi_plus, kc.values[s].fi_minus))

\* C20: a criterion of weight 0 contributes nothing and is not skipped.
\* When a rank call returns, the rank call from the same state of the kernel
\* with any matrix that differs only in the columns of the criteria of
\* weight 0 ends with the same fi_plus, fi_minus and fi of every solution and
\* the same ordered_solutions; and the cells of every criterion of weight 0
\* hold the raw values of the matrix, their used values and their flows.
C20_ZeroWeightCriterion ==
    [][(/\ call'.op = "rank"
        /\ nb_ranks' = nb_ranks + 1
        /\ call'.error = "None"
        /\ ~TrivialRanking(nb_solutions, nb_criteria)
        /\ call'.matrix \in Matrices(nb_solutions, nb_criteria))
       => /\ \A other \in Matrices(nb_solutions, nb_criteria) :
                 AgreeOutsideZeroWeight(criteria, call'.matrix, other)
                 => SameRanking(RankResult(criteria, solutions, ordered_solutions,
                                           nb_solutions, other),
                                solutions', ordered_solutions')
          /\ \A c \in DOMAIN criteria :
                 NumEq(criteria[c].weight, Zero)
                 => ColumnComputed(criteria'[c], call'.matrix, nb_solutions)]_vars

\* C21: after every rank call that returns, however many rank calls came
\* before it, on a kernel whose criteria are linear policies with
\* p > q >= 0, whose weights are not negative and whose total weight is
\* positive, every solution's fi_plus and fi_minus are in [0, 1] and its fi
\* is in [-1, 1].
C21_BoundedFlows ==
    (/\ RankReturned
     /\ ~TrivialRanking(nb_solutions, nb_criteria)
     /\ \A c \in DOMAIN criteria :
            /\ criteria[c].criterion # None
            /\ criteria[c].criterion.class = "LinearCriterion"
            /\ Lt(criteria[c].criterion.q, criteria[c].criterion.p)
            /\ Le(Zero, criteria[c].criterion.q)
            /\ Le(Zero, criteria[c].weight)
     /\ Lt(Zero, SumOver([c \in DOMAIN criteria |-> criteria[c].weight],
                         nb_criteria)))
    => \A s \in DOMAIN solutions :
           /\ Le(Zero, solutions[s].fi_plus) /\ Le(solutions[s].fi_plus, One)
           /\ Le(Zero, solutions[s].fi_minus) /\ Le(solutions[s].fi_minus, One)
           /\ Le(Rat(-1, 1), solutions[s].fi) /\ Le(solutions[s].fi, One)

\* C22: whatever set_criterion, apply_config and rank calls have been made,
\* failed ones included, kernel.solutions holds exactly nb_solutions
\* solutions with solutions[i].id = i and kernel.criteria exactly
\* nb_criteria criteria with criteria[c].id = c, and no call changes
\* nb_solutions or nb_criteria: rank sorts a list of its own.
C22_KernelFrame ==
    /\ [](/\ DOMAIN solutions = 0 .. nb_solutions - 1
          /\ \A i \in DOMAIN solutions : solutions[i].id = i
          /\ DOMAIN criteria = 0 .. nb_criteria - 1
          /\ \A c \in DOMAIN criteria :
                 /\ criteria[c].id = c
                 /\ DOMAIN criteria[c].values = 0 .. nb_solutions - 1)
    /\ [][nb_solutions' = nb_solutions /\ nb_criteria' = nb_criteria]_vars

\* The second rank call of a kernel of two solutions has returned the
\* ranking 1, 0, and kernel.solutions is still in index order.
C22_Witness ==
    /\ RankReturned
    /\ nb_ranks = 2
    /\ nb_solutions = 2
    /\ nb_criteria = 1
    /\ ordered_solutions = <<1, 0>>
    /\ \A i \in DOMAIN solutions : solutions[i].id = i
    /\ criteria[0].id = 0

====
